---------------------------- MODULE Spec2Model ----------------------------
(***************************************************************************)
(* A model of the block-cipher toolkit: the legacy counter-mode block      *)
(* cipher (ciphers.py), the Feistel counter-mode block cipher and the      *)
(* seed-extending stream cipher (symmetric.py), and RSA key generation     *)
(* with its square-and-multiply exponentiation (rsa.py).                   *)
(*                                                                         *)
(* Byte strings are sequences of naturals in 0..255.  Each script is a     *)
(* sequential program; pc is its position.                                 *)
(***************************************************************************)
EXTENDS Integers, Sequences, FiniteSets, TLC

VARIABLES
    pc,          \* position of the running program
    mode,        \* "e" or "d", the mode the script was started in
    message,     \* the plaintext the caller handed to the encrypting run
    keyFile,     \* content of the key file
    sourceFile,  \* content of the source file of the current run
    destFile,    \* content of the destination file of the current run
    variant,     \* block cipher: "legacy" (ciphers.py) or "feistel" (symmetric.py)
    opFile,      \* block cipher: the bytes to transform (IV trailer removed)
    iv,          \* block cipher: the initialisation value
    keySchedule, \* block cipher: the 12 round keys
    numBlocks,   \* block cipher: number of keystream blocks
    excessLen,   \* block cipher: keystream bytes to trim
    keyStream,   \* build_keystream: the keystream built so far
    loopI,       \* build_keystream: iterations of `for i in range(numBlocks)` done
    ivGenI,      \* gen_iv_blocks: the generator's counter i (symmetric.py)
    seedKey,     \* stream cipher: the key that is persisted
    key,         \* stream cipher: the working key XORed into the data
    size,        \* generate_key: the requested bit length
    primes,      \* generate_pqn: the primes found in this attempt
    pqnKey,      \* generate_pqn: its local `key`, the product of the primes
    possiblePrime, \* generate_prime: the candidate under test
    mrI,         \* miller_rabin: rounds completed
    rsaKey,      \* generate_key: the returned [n, e, d]
    msgInt,      \* RSA: the integer message m
    cipherInt,   \* RSA: expo(m, e, n)
    plainInt,    \* RSA: expo(expo(m, e, n), d, n)
    expoArgs,    \* expo: the arguments <<a, b, c>> of the call
    expoResult,  \* expo: the value returned
    mrN,         \* miller_rabin called on its own: the argument n
    mrK,         \* miller_rabin called on its own: the argument k
    mrLoopI,     \* miller_rabin called on its own: rounds completed
    mrResult,    \* miller_rabin called on its own: the value returned
    egcdArgs,    \* extended_gcd called on its own: the arguments <<a, b>>
    egcdResult,  \* extended_gcd called on its own: the returned <<gcd, x, y>>
    invArgs,     \* find_modular_inverse called on its own: the arguments <<e, phi>>
    invRaised,   \* find_modular_inverse called on its own: it raised ValueError
    invResult,   \* find_modular_inverse called on its own: the value returned
    hashFile,    \* hash: content of the input file
    inputData,   \* hash: the padded data
    currentHash, \* hash: the running hash value
    hashBlockI,  \* hash: blocks of inputData processed so far
    digests,     \* hash: <<file content, digest>> of every call that returned
    privKeyFile, \* RSA menu: the lines of the private key file, n and d in hex
    pubKeyFile,  \* RSA menu: the lines of the public key file, n and e in hex
    signedFile,  \* sign: content of the input file
    sigFile,     \* sign: content of the signature file
    checkedFile, \* verify: content of the input file
    digestsMatch, \* verify: fileDigest == sigDigest
    plainFile,   \* encrypt: content of the input file
    trapdoorApplied, \* encrypt: expo(intData, e, n) was computed
    intData,     \* encrypt: the message as an integer
    cipherWritten, \* encrypt: the output file was written
    cipherFile,  \* encrypt: content of the output file
    trFile,      \* transform called on its own: the argument opFile
    trStream,    \* transform called on its own: the argument keyStream
    trRaised,    \* transform called on its own: it raised an error
    trOut,       \* transform called on its own: the value returned
    schedSeed,   \* generate_key_schedule called on its own: the 16 seed bytes
    schedTotal,  \* generate_key_schedule called on its own: the argument totalKeys
    schedRaised, \* generate_key_schedule called on its own: it raised RecursionError
    schedules,   \* generate_key_schedule called on its own: the lists returned
    legacyWords, \* generate_key_words called on its own: the words returned
    legacyKeys   \* ciphers.py generate_key_schedule: the keys returned

fileVars == <<mode, message, keyFile, sourceFile, destFile>>

blockVars == <<variant, opFile, iv, keySchedule, numBlocks, excessLen, keyStream,
               loopI, ivGenI>>

streamVars == <<seedKey, key>>

rsaVars == <<size, primes, pqnKey, possiblePrime, mrI, rsaKey, msgInt, cipherInt,
             plainInt>>

expoVars == <<expoArgs, expoResult>>

primalityVars == <<mrN, mrK, mrLoopI, mrResult>>

\* the variables of the functions that are called on their own
euclidVars == <<egcdArgs, egcdResult, invArgs, invRaised, invResult>>

hashVars == <<hashFile, inputData, currentHash, hashBlockI, digests>>

menuVars == <<privKeyFile, pubKeyFile, signedFile, sigFile, checkedFile, digestsMatch,
              plainFile, trapdoorApplied, intData, cipherWritten, cipherFile>>

transformVars == <<trFile, trStream, trRaised, trOut>>

scheduleVars == <<schedSeed, schedTotal, schedRaised, schedules, legacyWords,
                  legacyKeys>>

callVars == <<primalityVars, euclidVars, hashVars, menuVars, transformVars,
              scheduleVars>>

vars == <<pc, fileVars, blockVars, streamVars, rsaVars, expoVars, callVars>>

-----------------------------------------------------------------------------
(* Bounds of the model *)

\* longest plaintext handed to the block ciphers
MaxLen == 40

\* the stream cipher is run on plaintexts of up to 1024 + MaxExtra bytes
MaxExtra == 24

\* generate_key is called with sizes 4..MaxKeyBits
MaxKeyBits == 10

\* expo is called with a in 0..MaxBase, b in 0..MaxExp, c in 1..MaxMod
MaxBase == 6

MaxExp == 6

MaxMod == 5

\* miller_rabin is called on its own with n in -2..MaxCandidate (and 341) and
\* with k in 0..MaxRounds
MaxCandidate == 60

MaxRounds == 5

\* extended_gcd and find_modular_inverse are called on their own with arguments
\* up to MaxEuclid
MaxEuclid == 14

\* hash is called on files of up to MaxHashLen bytes
MaxHashLen == 17

\* transform is called on its own with buffers and keys of up to MaxBuf bytes
MaxBuf == 6

\* create_key makes keys of MaxMenuKeyBits - 1 and MaxMenuKeyBits bits
MaxMenuKeyBits == 14

\* encrypt is called on files of up to MaxPlainLen bytes
MaxPlainLen == 2

\* block ciphers started on an existing key file: key files of 0..MaxKeyFileLen
\* bytes
MaxKeyFileLen == 18

\* generate_key_schedule called on its own: totalKeys in 1..MaxTotalKeys
MaxTotalKeys == 24

-----------------------------------------------------------------------------
(* Bytes and the shared substitution / permutation primitive *)

Min(a, b) == IF a < b THEN a ELSE b

Max(a, b) == IF a > b THEN a ELSE b

RECURSIVE XorBits(_, _, _)
XorBits(a, b, n) ==
    IF n = 0 THEN 0
    ELSE ((a + b) % 2) + 2 * XorBits(a \div 2, b \div 2, n - 1)

XorNibble == [a \in 0..15 |-> [b \in 0..15 |-> XorBits(a, b, 4)]]

\* Python's a ^ b on two bytes
BXor(a, b) == 16 * XorNibble[a \div 16][b \div 16] + XorNibble[a % 16][b % 16]

\* [a ^ b for a, b in zip(x, y)]: zip stops at the shorter operand.  (SubSeq
\* over the whole range makes the result an explicit sequence of bytes.)
XorBytes(x, y) ==
    SubSeq([i \in 1..Min(Len(x), Len(y)) |-> BXor(x[i], y[i])],
           1, Min(Len(x), Len(y)))

\* the s-box (the same table in ciphers.py, symmetric.py and rsa.py); sbox[b + 1]
\* is the substitute of byte b
sbox == <<
    99, 124, 119, 123, 242, 107, 111, 197, 48, 1, 103, 43, 254, 215, 171, 118,
    202, 130, 201, 125, 250, 89, 71, 240, 173, 212, 162, 175, 156, 164, 114, 192,
    183, 253, 147, 38, 54, 63, 247, 204, 52, 165, 229, 241, 113, 216, 49, 21,
    4, 199, 35, 195, 24, 150, 5, 154, 7, 18, 128, 226, 235, 39, 178, 117,
    9, 131, 44, 26, 27, 110, 90, 160, 82, 59, 214, 179, 41, 227, 47, 132,
    83, 209, 0, 237, 32, 252, 177, 91, 106, 203, 190, 57, 74, 76, 88, 207,
    208, 239, 170, 251, 67, 77, 51, 133, 69, 249, 2, 127, 80, 60, 159, 168,
    81, 163, 64, 143, 146, 157, 56, 245, 188, 182, 218, 33, 16, 255, 243, 210,
    205, 12, 19, 236, 95, 151, 68, 23, 196, 167, 126, 61, 100, 93, 25, 115,
    96, 129, 79, 220, 34, 42, 144, 136, 70, 238, 184, 20, 222, 94, 11, 219,
    224, 50, 58, 10, 73, 6, 36, 92, 194, 211, 172, 98, 145, 149, 228, 121,
    231, 200, 55, 109, 141, 213, 78, 169, 108, 86, 244, 234, 101, 122, 174, 8,
    186, 120, 37, 46, 28, 166, 180, 198, 232, 221, 116, 31, 75, 189, 139, 138,
    112, 62, 181, 102, 72, 3, 246, 14, 97, 53, 87, 185, 134, 193, 29, 158,
    225, 248, 152, 17, 105, 217, 142, 148, 155, 30, 135, 233, 206, 85, 40, 223,
    140, 161, 137, 13, 191, 230, 66, 104, 65, 153, 45, 15, 176, 84, 187, 22
>>

perm == <<7, 6, 1, 8, 4, 3, 5, 2>>

permutate(data) == [k \in 1..Len(perm) |-> data[perm[k]]]

sbox_sub(data) == [k \in 1..Len(data) |-> sbox[data[k] + 1]]

\* i.to_bytes(width, byteorder='big'), for 0 <= i < 256^width
RECURSIVE to_bytes(_, _)
to_bytes(i, width) ==
    IF width = 0 THEN <<>>
    ELSE Append(to_bytes(i \div 256, width - 1), i % 256)

\* Python slices data[-n:] and data[:-n] for n > 0
LastBytes(data, n) == SubSeq(data, Max(1, Len(data) - n + 1), Len(data))

DropLastBytes(data, n) == SubSeq(data, 1, Max(0, Len(data) - n))

\* Python's data[a:b] for 0 <= a <= b
Slice(data, a, b) == SubSeq(data, Min(a, Len(data)) + 1, Min(b, Len(data)))

\* a transform that adds the key byte instead of XORing it
transform_add(file, stream) ==
    [i \in 1..Min(Len(file), Len(stream)) |-> (file[i] + stream[i]) % 256]

\* bytes(d ^ k for d, k in zip(opFile, keyStream))
transform(file, stream) == XorBytes(file, stream)

-----------------------------------------------------------------------------
(* ciphers.py: the legacy block cipher *)

\* [bytearray(data[i:i+4]) for i in range(0, 16, 4)]: a slice of a short file
\* is short or empty, bytes after the 16th are not looked at
ciphers_load_key(data) == [w \in 1..4 |-> Slice(data, 4 * (w - 1), 4 * w)]

\* gfunc indexes substitutedArray[0] .. substitutedArray[3]: IndexError for a
\* word of fewer than 4 bytes
gfunc_raises(word) == Len(word) < 4

gfunc(word) ==
    LET rotatedArray == SubSeq(word, 4, Len(word)) \o SubSeq(word, 1, 3)
        substitutedArray == sbox_sub(rotatedArray)
    IN  <<BXor(substitutedArray[1], 255), substitutedArray[2],
          substitutedArray[3], substitutedArray[4]>>

RECURSIVE generate_key_words_near(_)
\* a generate_key_words that XORs with the word two places behind the last one
generate_key_words_near(words) ==
    IF Len(words) = 24 THEN words
    ELSE IF Len(words) % 4 = 0
         THEN generate_key_words_near(Append(words,
                  XorBytes(gfunc(words[Len(words)]), words[Len(words) - 2])))
         ELSE generate_key_words_near(Append(words,
                  XorBytes(words[Len(words)], words[Len(words) - 2])))

RECURSIVE generate_key_words(_)
generate_key_words(words) ==
    IF Len(words) = 24 THEN words
    ELSE IF Len(words) % 4 = 0
         THEN generate_key_words(Append(words,
                  XorBytes(gfunc(words[Len(words)]), words[Len(words) - 3])))
         ELSE generate_key_words(Append(words,
                  XorBytes(words[Len(words)], words[Len(words) - 3])))

\* the first step of generate_key_words, on the 4 loaded words, is
\* gfunc(words[-1])
generate_key_words_raises(words) == gfunc_raises(words[Len(words)])

ciphers_generate_key_schedule(keyWords) ==
    [k \in 1..12 |-> keyWords[2 * k - 1] \o keyWords[2 * k]]

\* one pass of the body of `for key in keySchedule`
ciphers_encrypt_round(data, roundKey) ==
    XorBytes(sbox_sub(permutate(data)), roundKey)

RECURSIVE ciphers_encrypt_rounds(_, _)
\* the loop over the key schedule; trace holds the data before the first round
\* and after every round made so far
ciphers_encrypt_rounds(trace, schedule) ==
    IF Len(trace) > Len(schedule) THEN trace[Len(trace)]
    ELSE ciphers_encrypt_rounds(
             Append(trace, ciphers_encrypt_round(trace[Len(trace)],
                                                 schedule[Len(trace)])),
             schedule)

ciphers_encrypt(input, schedule) == ciphers_encrypt_rounds(<<input>>, schedule)

\* the value of next(g) for a generator g of gen_iv_blocks(iv) whose counter is i
ciphers_gen_iv_blocks(ivValue, i) == ivValue \o to_bytes(i, 4)

ciphers_numBlocks(len) == IF len % 8 # 0 THEN (len \div 8) + 1 ELSE len \div 8

ciphers_excessLen(len) == IF len % 8 # 0 THEN 8 - (len % 8) ELSE 0

-----------------------------------------------------------------------------
(* symmetric.py: the Feistel block cipher *)

\* [bytearray(data[i:i+8]) for i in range(0, 16, 8)]
symmetric_load_key(data) == [w \in 1..2 |-> Slice(data, 8 * (w - 1), 8 * w)]

\* permutate reads data[i-1] for every i in perm, up to data[7]: IndexError for
\* fewer than 8 bytes
permutate_raises(data) == Len(data) < Len(perm)

\* the first step of generate_key_schedule is permutate(keys[-1])
generate_key_schedule_index_error(keys, totalKeys) ==
    Len(keys) # totalKeys /\ permutate_raises(keys[Len(keys)])

\* sys.getrecursionlimit(): the interpreter's limit on nested calls, which the
\* program never changes
RecursionLimit == 1000

\* generate_key_schedule recurses until len(keys) == totalKeys, one nested call
\* for every key it appends.  A list that is already longer than totalKeys
\* only grows and the base case is never met; a list that is RecursionLimit or
\* more keys short needs more nested calls than the interpreter allows.  Both
\* calls end in Python's RecursionError.
generate_key_schedule_raises(keys, totalKeys) ==
    \/ Len(keys) > totalKeys
    \/ totalKeys - Len(keys) >= RecursionLimit

RECURSIVE generate_key_schedule(_, _)
generate_key_schedule(keys, totalKeys) ==
    IF Len(keys) = totalKeys THEN keys
    ELSE LET firstTransform == sbox_sub(permutate(keys[Len(keys)]))
             newKey == XorBytes(firstTransform, keys[Len(keys) - 1])
         IN  generate_key_schedule(Append(keys, newKey), totalKeys)

\* one pass of the body of `for key in keySchedule` on <<dataOne, dataTwo>>
symmetric_encrypt_round(halves, roundKey) ==
    LET swappedOne == halves[2]
        swappedTwo == halves[1]
        newOne == XorBytes(sbox_sub(permutate(swappedOne)), roundKey)
        newTwo == XorBytes(newOne, swappedTwo)
    IN  <<newOne, newTwo>>

RECURSIVE symmetric_encrypt_rounds(_, _)
\* the loop over the key schedule; trace holds <<dataOne, dataTwo>> before the
\* first round and after every round made so far
symmetric_encrypt_rounds(trace, schedule) ==
    IF Len(trace) > Len(schedule)
    THEN trace[Len(trace)][1] \o trace[Len(trace)][2]
    ELSE symmetric_encrypt_rounds(
             Append(trace, symmetric_encrypt_round(trace[Len(trace)],
                                                   schedule[Len(trace)])),
             schedule)

symmetric_encrypt(input, schedule) ==
    symmetric_encrypt_rounds(<< <<SubSeq(input, 1, 8), SubSeq(input, 9, Len(input))>> >>,
                             schedule)

\* a generator that is restarted for every block
symmetric_gen_iv_blocks_fresh(ivValue, i) == ivValue \o to_bytes(0, 8)

\* the value of next(g) for a generator g of gen_iv_blocks(iv) whose counter is i
symmetric_gen_iv_blocks(ivValue, i) == ivValue \o to_bytes(i, 8)

symmetric_numBlocks(len) == IF len % 16 # 0 THEN (len \div 16) + 1 ELSE len \div 16

symmetric_excessLen(len) == IF len % 16 # 0 THEN 16 - (len % 16) ELSE 0

-----------------------------------------------------------------------------
(* Inputs: what secrets.token_bytes and the caller's files can hold *)

Pattern(n, a, b) == [i \in 1..n |-> (a * (i - 1) + b) % 256]

KeyChoices == {Pattern(16, 1, 0), Pattern(16, 59, 200)}

ciphers_generate_iv == {Pattern(4, 0, 0), Pattern(4, 3, 249)}

symmetric_generate_iv == {Pattern(8, 0, 0), Pattern(8, 3, 249)}

MessageChoices ==
    UNION {{Pattern(L, 37, 11), Pattern(L, 0, 0)} : L \in 0..MaxLen}

-----------------------------------------------------------------------------
(* The block cipher main programs.  A run is: read the inputs and build the   *)
(* key schedule, build the keystream one block per loop iteration, trim it,   *)
(* XOR it into the data and write the destination file.                       *)

InitFileVars ==
    /\ mode = "none"
    /\ message = <<>>
    /\ keyFile = <<>>
    /\ sourceFile = <<>>
    /\ destFile = <<>>

InitBlockVars ==
    /\ variant = "none"
    /\ opFile = <<>>
    /\ iv = <<>>
    /\ keySchedule = <<>>
    /\ numBlocks = 0
    /\ excessLen = 0
    /\ keyStream = <<>>
    /\ loopI = 0
    /\ ivGenI = 0

InitStreamVars ==
    /\ seedKey = <<>>
    /\ key = <<>>

InitRsaVars ==
    /\ size = 0
    /\ primes = <<>>
    /\ pqnKey = 0
    /\ possiblePrime = 0
    /\ mrI = 0
    /\ rsaKey = <<>>
    /\ msgInt = 0
    /\ cipherInt = 0
    /\ plainInt = 0

InitExpoVars ==
    /\ expoArgs = <<>>
    /\ expoResult = 0

InitPrimalityVars ==
    /\ mrN = 0
    /\ mrK = 0
    /\ mrLoopI = 0
    /\ mrResult = "none"

InitEuclidVars ==
    /\ egcdArgs = <<>>
    /\ egcdResult = <<>>
    /\ invArgs = <<>>
    /\ invRaised = FALSE
    /\ invResult = 0

InitHashVars ==
    /\ hashFile = <<>>
    /\ inputData = <<>>
    /\ currentHash = <<>>
    /\ hashBlockI = 0
    /\ digests = <<>>

InitMenuVars ==
    /\ privKeyFile = <<>>
    /\ pubKeyFile = <<>>
    /\ signedFile = <<>>
    /\ sigFile = <<>>
    /\ checkedFile = <<>>
    /\ digestsMatch = FALSE
    /\ plainFile = <<>>
    /\ trapdoorApplied = FALSE
    /\ intData = 0
    /\ cipherWritten = FALSE
    /\ cipherFile = <<>>

InitTransformVars ==
    /\ trFile = <<>>
    /\ trStream = <<>>
    /\ trRaised = FALSE
    /\ trOut = <<>>

InitScheduleVars ==
    /\ schedSeed = <<>>
    /\ schedTotal = 0
    /\ schedRaised = FALSE
    /\ schedules = <<>>
    /\ legacyWords = <<>>
    /\ legacyKeys = <<>>

InitCallVars ==
    /\ InitScheduleVars
    /\ InitPrimalityVars
    /\ InitEuclidVars
    /\ InitHashVars
    /\ InitMenuVars
    /\ InitTransformVars

\* ciphers.py, mode 'e': new or existing 16-byte key, fresh IV, up to the call
\* of build_keystream
ciphers_main_encrypt ==
    /\ pc = "start"
    /\ \E k \in KeyChoices, m \in MessageChoices, v \in ciphers_generate_iv :
          /\ variant' = "legacy"
          /\ mode' = "e"
          /\ message' = m
          /\ keyFile' = k
          /\ sourceFile' = m
          /\ destFile' = <<>>
          /\ opFile' = m
          /\ iv' = v
          /\ keySchedule' =
                ciphers_generate_key_schedule(generate_key_words(ciphers_load_key(k)))
          /\ numBlocks' = ciphers_numBlocks(Len(m))
          /\ excessLen' = ciphers_excessLen(Len(m))
    /\ keyStream' = <<>>
    /\ loopI' = 0
    /\ ivGenI' = 0
    /\ pc' = "build"
    /\ UNCHANGED <<streamVars, rsaVars, expoVars, callVars>>

\* ciphers.py, mode 'd', run on the file the encrypting run wrote
ciphers_main_decrypt ==
    /\ pc = "encrypted"
    /\ variant = "legacy"
    /\ mode' = "d"
    /\ sourceFile' = destFile
    /\ destFile' = <<>>
    /\ iv' = LastBytes(destFile, 4)
    /\ opFile' = DropLastBytes(destFile, 4)
    /\ keySchedule' =
          ciphers_generate_key_schedule(generate_key_words(ciphers_load_key(keyFile)))
    /\ numBlocks' = ciphers_numBlocks(Len(DropLastBytes(destFile, 4)))
    /\ excessLen' = ciphers_excessLen(Len(DropLastBytes(destFile, 4)))
    /\ keyStream' = <<>>
    /\ loopI' = 0
    /\ ivGenI' = 0
    /\ pc' = "build"
    /\ UNCHANGED <<variant, message, keyFile>>
    /\ UNCHANGED <<streamVars, rsaVars, expoVars, callVars>>

\* ciphers.py build_keystream, one iteration: next(gen_iv_blocks(iv)) draws from
\* a generator made in this very iteration, whose counter is 0
ciphers_build_keystream_step ==
    /\ pc = "build"
    /\ variant = "legacy"
    /\ loopI < numBlocks
    /\ LET ivValue == ciphers_gen_iv_blocks(iv, 0)
       IN  keyStream' = keyStream \o ciphers_encrypt(ivValue, keySchedule)
    /\ loopI' = loopI + 1
    /\ UNCHANGED <<pc, variant, mode, message, keyFile, sourceFile, destFile, opFile,
                   iv, keySchedule, numBlocks, excessLen, ivGenI>>
    /\ UNCHANGED <<streamVars, rsaVars, expoVars, callVars>>

ciphers_trim(stream, excess) ==
    IF excess # 0 THEN DropLastBytes(stream, excess) ELSE stream

ciphers_build_keystream_return ==
    /\ pc = "build"
    /\ variant = "legacy"
    /\ loopI = numBlocks
    /\ keyStream' = ciphers_trim(keyStream, excessLen)
    /\ pc' = "built"
    /\ UNCHANGED <<variant, mode, message, keyFile, sourceFile, destFile, opFile,
                   iv, keySchedule, numBlocks, excessLen, loopI, ivGenI>>
    /\ UNCHANGED <<streamVars, rsaVars, expoVars, callVars>>

ciphers_outputData(data, stream, ivValue, m) ==
    IF m = "e" THEN transform(data, stream) \o ivValue ELSE transform(data, stream)

ciphers_main_write ==
    /\ pc = "built"
    /\ variant = "legacy"
    /\ destFile' = ciphers_outputData(opFile, keyStream, iv, mode)
    /\ pc' = IF mode = "e" THEN "encrypted" ELSE "decrypted"
    /\ UNCHANGED <<variant, mode, message, keyFile, sourceFile, opFile, iv,
                   keySchedule, numBlocks, excessLen, keyStream, loopI, ivGenI>>
    /\ UNCHANGED <<streamVars, rsaVars, expoVars, callVars>>

\* symmetric.py, cipher 'b', mode 'e'
symmetric_main_encrypt ==
    /\ pc = "start"
    /\ \E k \in KeyChoices, m \in MessageChoices, v \in symmetric_generate_iv :
          /\ variant' = "feistel"
          /\ mode' = "e"
          /\ message' = m
          /\ keyFile' = k
          /\ sourceFile' = m
          /\ destFile' = <<>>
          /\ opFile' = m
          /\ iv' = v
          /\ keySchedule' = generate_key_schedule(symmetric_load_key(k), 12)
          /\ numBlocks' = symmetric_numBlocks(Len(m))
          /\ excessLen' = symmetric_excessLen(Len(m))
    /\ keyStream' = <<>>
    /\ loopI' = 0
    /\ ivGenI' = 0
    /\ pc' = "build"
    /\ UNCHANGED <<streamVars, rsaVars, expoVars, callVars>>

\* symmetric.py, cipher 'b', mode 'd', run on the file the encrypting run wrote
symmetric_main_decrypt ==
    /\ pc = "encrypted"
    /\ variant = "feistel"
    /\ mode' = "d"
    /\ sourceFile' = destFile
    /\ destFile' = <<>>
    /\ iv' = LastBytes(destFile, 8)
    /\ opFile' = DropLastBytes(destFile, 8)
    /\ keySchedule' = generate_key_schedule(symmetric_load_key(keyFile), 12)
    /\ numBlocks' = symmetric_numBlocks(Len(DropLastBytes(destFile, 8)))
    /\ excessLen' = symmetric_excessLen(Len(DropLastBytes(destFile, 8)))
    /\ keyStream' = <<>>
    /\ loopI' = 0
    /\ ivGenI' = 0
    /\ pc' = "build"
    /\ UNCHANGED <<variant, message, keyFile>>
    /\ UNCHANGED <<streamVars, rsaVars, expoVars, callVars>>

\* symmetric.py build_keystream, one iteration: next(ivGen) on the one generator
\* made before the loop
symmetric_build_keystream_step ==
    /\ pc = "build"
    /\ variant = "feistel"
    /\ loopI < numBlocks
    /\ LET ivValue == symmetric_gen_iv_blocks(iv, ivGenI)
       IN  keyStream' = keyStream \o symmetric_encrypt(ivValue, keySchedule)
    /\ ivGenI' = ivGenI + 1
    /\ loopI' = loopI + 1
    /\ UNCHANGED <<pc, variant, mode, message, keyFile, sourceFile, destFile, opFile,
                   iv, keySchedule, numBlocks, excessLen>>
    /\ UNCHANGED <<streamVars, rsaVars, expoVars, callVars>>

\* keyStream[:-excessLen] without the test for excessLen == 0
symmetric_trim_unguarded(stream, excess) ==
    IF excess = 0 THEN <<>> ELSE DropLastBytes(stream, excess)

symmetric_trim(stream, excess) ==
    IF excess # 0 THEN DropLastBytes(stream, excess) ELSE stream

symmetric_build_keystream_return ==
    /\ pc = "build"
    /\ variant = "feistel"
    /\ loopI = numBlocks
    /\ keyStream' = symmetric_trim(keyStream, excessLen)
    /\ pc' = "built"
    /\ UNCHANGED <<variant, mode, message, keyFile, sourceFile, destFile, opFile,
                   iv, keySchedule, numBlocks, excessLen, loopI, ivGenI>>
    /\ UNCHANGED <<streamVars, rsaVars, expoVars, callVars>>

symmetric_outputData(data, stream, ivValue, m) ==
    IF m = "e" THEN transform(data, stream) \o ivValue ELSE transform(data, stream)

symmetric_main_write ==
    /\ pc = "built"
    /\ variant = "feistel"
    /\ destFile' = symmetric_outputData(opFile, keyStream, iv, mode)
    /\ pc' = IF mode = "e" THEN "encrypted" ELSE "decrypted"
    /\ UNCHANGED <<variant, mode, message, keyFile, sourceFile, opFile, iv,
                   keySchedule, numBlocks, excessLen, keyStream, loopI, ivGenI>>
    /\ UNCHANGED <<streamVars, rsaVars, expoVars, callVars>>

InitBlock ==
    /\ pc = "start"
    /\ InitFileVars
    /\ InitBlockVars
    /\ InitStreamVars
    /\ InitRsaVars
    /\ InitExpoVars
    /\ InitCallVars

NextBlock ==
    \/ ciphers_main_encrypt
    \/ ciphers_build_keystream_step
    \/ ciphers_build_keystream_return
    \/ ciphers_main_write
    \/ ciphers_main_decrypt
    \/ symmetric_main_encrypt
    \/ symmetric_build_keystream_step
    \/ symmetric_build_keystream_return
    \/ symmetric_main_write
    \/ symmetric_main_decrypt

SpecBlock == InitBlock /\ [][NextBlock]_vars

-----------------------------------------------------------------------------
(* Properties of the block ciphers (SpecBlock) *)

\* the bytes of block i (0-indexed, block size bs) that stream holds
BlockOf(stream, i, bs) == SubSeq(stream, bs * i + 1, Min(bs * (i + 1), Len(stream)))

Prefix(data, n) == SubSeq(data, 1, n)

\* C1: decrypting what an encrypting run wrote (ciphertext followed by the IV),
\* with the same key file, writes exactly the plaintext, for both variants and
\* every length.
C1_BlockRoundTrip == pc = "decrypted" => destFile = message

C1_Witness ==
    /\ pc = "decrypted"
    /\ variant = "legacy"
    /\ Len(message) > 8
    /\ Len(message) % 8 # 0
    /\ destFile = message
    /\ sourceFile # message \o iv

\* C2: in the Feistel variant every block i that build_keystream has produced is
\* encrypt(IV || big_endian_8_bytes(i), keySchedule): whole while the keystream
\* is being built, and cut to the bytes kept once it has been trimmed and
\* returned.
C2_FeistelCounterBlocks ==
    (variant = "feistel" /\ pc \in {"build", "built"}) =>
        \A i \in 0..(loopI - 1) :
            LET have == BlockOf(keyStream, i, 16)
            IN  /\ pc = "build" => Len(have) = 16
                /\ have = Prefix(symmetric_encrypt(iv \o to_bytes(i, 8), keySchedule),
                                 Len(have))

C2_Witness ==
    /\ variant = "feistel"
    /\ pc = "build"
    /\ loopI = 2
    /\ BlockOf(keyStream, 1, 16) = symmetric_encrypt(iv \o to_bytes(1, 8), keySchedule)
    /\ BlockOf(keyStream, 1, 16) # BlockOf(keyStream, 0, 16)

\* C3: in the legacy variant every block i that build_keystream has produced is
\* encrypt(IV || big_endian_4_bytes(i), keySchedule).
C3_LegacyCounterBlocks ==
    (variant = "legacy" /\ pc \in {"build", "built"}) =>
        \A i \in 0..(loopI - 1) :
            LET have == BlockOf(keyStream, i, 8)
            IN  have = Prefix(ciphers_encrypt(iv \o to_bytes(i, 4), keySchedule),
                              Len(have))

\* C4: when build_keystream returns, the keystream has exactly len(opFile) bytes,
\* they are the first len(opFile) bytes of the concatenated blocks, and exactly
\* excessLen trailing bytes were removed.
C4_TrimExact ==
    [][(pc = "build" /\ pc' = "built") =>
          /\ Len(keyStream) = numBlocks * (IF variant = "legacy" THEN 8 ELSE 16)
          /\ Len(keyStream') = Len(opFile)
          /\ keyStream' = Prefix(keyStream, Len(opFile))
          /\ Len(keyStream) - Len(keyStream') = excessLen]_vars

C4_Witness ==
    /\ pc = "built"
    /\ variant = "feistel"
    /\ numBlocks = 2
    /\ excessLen = 15
    /\ Len(keyStream) = 17

-----------------------------------------------------------------------------
(* symmetric.py: the stream cipher *)

RECURSIVE JoinKeys(_, _)
\* for newKey in newKeys: key += newKey
JoinKeys(data, newKeys) ==
    IF newKeys = <<>> THEN data
    ELSE JoinKeys(data \o Head(newKeys), Tail(newKeys))

extend_key_moreKeys(length) == (length - 1024) \div 8 + 1

extend_key_extrakey(length) == 8 - ((length - 1024) % 8)

extend_key_keyparts(data) == <<Slice(data, 1008, 1016), Slice(data, 1016, 1024)>>

\* extend_key ends in RecursionError when generate_key_schedule does
extend_key_raises(data, length) ==
    generate_key_schedule_raises(extend_key_keyparts(data), extend_key_moreKeys(length))

\* an extend_key that appends only keys generate_key_schedule made, not the two
\* seed keys it was given
extend_key_fresh(data, length) ==
    LET newKeys == generate_key_schedule(extend_key_keyparts(data),
                                         extend_key_moreKeys(length) + 2)
    IN  DropLastBytes(JoinKeys(data, SubSeq(newKeys, 3, Len(newKeys))),
                      extend_key_extrakey(length))

extend_key(data, length) ==
    LET newKeys == generate_key_schedule(extend_key_keyparts(data),
                                         extend_key_moreKeys(length))
    IN  DropLastBytes(JoinKeys(data, newKeys), extend_key_extrakey(length))

\* secrets.token_bytes(n)
token_bytes(n) == {Pattern(n, 7, 3), Pattern(n, 0, 255)}

StreamLengths == {0, 1, 1023} \cup (1024..(1024 + MaxExtra))

StreamMessages == UNION {{Pattern(L, 37, 11), Pattern(L, 0, 0)} : L \in StreamLengths}

\* cipher 's', mode 'e'.  An uncaught RecursionError ends the run before the
\* key file and the destination file are written.
symmetric_stream_encrypt ==
    /\ pc = "start"
    /\ \E m \in StreamMessages :
       \E seed \in token_bytes(IF Len(m) <= 1024 THEN Len(m) ELSE 1024) :
          LET raises == Len(m) > 1024 /\ extend_key_raises(seed, Len(m))
              workKey == IF Len(m) <= 1024 THEN seed ELSE extend_key(seed, Len(m))
          IN  /\ mode' = "e"
              /\ message' = m
              /\ sourceFile' = m
              /\ seedKey' = seed
              /\ key' = IF raises THEN key ELSE workKey
              /\ keyFile' = IF raises THEN keyFile ELSE seed
              /\ destFile' = IF raises THEN destFile ELSE transform(m, workKey)
              /\ pc' = IF raises THEN "crashed" ELSE "stream_encrypted"
    /\ UNCHANGED <<blockVars, rsaVars, expoVars, callVars>>

\* cipher 's', mode 'd', run on the file the encrypting run wrote, with the key
\* file it wrote
symmetric_stream_decrypt ==
    /\ pc = "stream_encrypted"
    /\ LET raises == Len(destFile) > 1024 /\ extend_key_raises(keyFile, Len(destFile))
           workKey == IF Len(destFile) > 1024
                      THEN extend_key(keyFile, Len(destFile))
                      ELSE keyFile
       IN  /\ mode' = "d"
           /\ sourceFile' = destFile
           /\ key' = IF raises THEN keyFile ELSE workKey
           /\ destFile' = IF raises THEN <<>> ELSE transform(destFile, workKey)
           /\ pc' = IF raises THEN "crashed" ELSE "stream_decrypted"
    /\ UNCHANGED <<message, keyFile, seedKey, blockVars, rsaVars, expoVars, callVars>>

InitStream ==
    /\ pc = "start"
    /\ InitFileVars
    /\ InitBlockVars
    /\ InitStreamVars
    /\ InitRsaVars
    /\ InitExpoVars
    /\ InitCallVars

NextStream ==
    \/ symmetric_stream_encrypt
    \/ symmetric_stream_decrypt

SpecStream == InitStream /\ [][NextStream]_vars

-----------------------------------------------------------------------------
(* Properties of the stream cipher (SpecStream) *)

\* C5: for a 1024-byte seed and a required length above 1024, extend_key returns
\* (the run does not end in an error) a key of exactly that length whose first
\* 1024 bytes are the seed.
C5_ExtendKeyExact ==
    (pc \in {"stream_encrypted", "crashed"} /\ Len(message) > 1024) =>
        /\ pc # "crashed"
        /\ Len(key) = Len(message)
        /\ Prefix(key, 1024) = seedKey

\* C6: for every plaintext the encrypting run persists the seed key (len(M) bytes
\* up to 1024, else 1024 bytes), and the decrypting run, given only that key
\* file, writes exactly the plaintext.
C6_StreamRoundTrip ==
    /\ pc # "start" =>
          /\ pc # "crashed"
          /\ keyFile = seedKey
          /\ Len(keyFile) = Min(Len(message), 1024)
    /\ pc = "stream_decrypted" => destFile = message

-----------------------------------------------------------------------------
(* rsa.py: big-integer arithmetic *)

RECURSIVE expo_loop(_, _, _, _)
expo_loop(result, a, b, c) ==
    IF b > 0
    THEN expo_loop(IF b % 2 = 1 THEN (result * a) % c ELSE result,
                   (a * a) % c, b \div 2, c)
    ELSE result

expo(a, b, c) == expo_loop(1, a % c, b, c)

RECURSIVE bit_length(_)
\* int.bit_length()
bit_length(n) == IF n = 0 THEN 0 ELSE 1 + bit_length(n \div 2)

RECURSIVE gcd(_, _)
gcd(a, b) == IF b # 0 THEN gcd(b, a % b) ELSE a

RECURSIVE find_coprime_loop(_, _)
find_coprime_loop(e, phi) ==
    IF gcd(e, phi) # 1 THEN find_coprime_loop(e - 2, phi) ELSE e

find_coprime(phi) == find_coprime_loop(65537, phi)

RECURSIVE extended_gcd_nodiv(_, _)
\* an extended_gcd that leaves the quotient a // b out of the new y
extended_gcd_nodiv(a, b) ==
    IF b = 0 THEN <<a, 1, 0>>
    ELSE LET r == extended_gcd_nodiv(b, a % b)
         IN  <<r[1], r[3], r[2] - r[3]>>

RECURSIVE extended_gcd(_, _)
\* returns <<gcd, x, y>>
extended_gcd(a, b) ==
    IF b = 0 THEN <<a, 1, 0>>
    ELSE LET r == extended_gcd(b, a % b)
         IN  <<r[1], r[3], r[2] - (a \div b) * r[3]>>

\* find_modular_inverse raises ValueError
find_modular_inverse_raises(e, phi) == extended_gcd(e, phi)[1] # 1

\* a find_modular_inverse that returns x without reducing it modulo phi
find_modular_inverse_unreduced(e, phi) == extended_gcd(e, phi)[2]

find_modular_inverse(e, phi) == extended_gcd(e, phi)[2] % phi

-----------------------------------------------------------------------------
(* rsa.py: Miller-Rabin and prime generation *)

\* the default k of miller_rabin(n, k=5)
MillerRabinRounds == 5

RECURSIVE miller_rabin_decompose(_, _)
\* s, d = 0, n - 1; while d % 2 == 0: s += 1; d //= 2
miller_rabin_decompose(s, d) ==
    IF d % 2 = 0 THEN miller_rabin_decompose(s + 1, d \div 2) ELSE <<s, d>>

RECURSIVE miller_rabin_squares(_, _, _)
\* for _ in range(s - 1): ... break / else: return False.  TRUE: n - 1 was found
miller_rabin_squares(x, times, n) ==
    IF times <= 0 THEN FALSE
    ELSE LET x2 == expo(x, 2, n)
         IN  IF x2 = n - 1 THEN TRUE ELSE miller_rabin_squares(x2, times - 1, n)

\* a round that takes only x = 1, and not x = n - 1, as inconclusive
miller_rabin_round_passes_strict(n, a) ==
    LET sd == miller_rabin_decompose(0, n - 1)
        x == expo(a, sd[2], n)
    IN  IF x = 1 THEN TRUE
        ELSE miller_rabin_squares(x, sd[1] - 1, n)

\* one round with witness a: TRUE when the round is inconclusive, FALSE when it
\* shows n composite
miller_rabin_round_passes(n, a) ==
    LET sd == miller_rabin_decompose(0, n - 1)
        x == expo(a, sd[2], n)
    IN  IF x = 1 \/ x = n - 1 THEN TRUE
        ELSE miller_rabin_squares(x, sd[1] - 1, n)

\* random.randrange(2, n - 1)
miller_rabin_witnesses(n) == 2..(n - 2)

RECURSIVE Pow2(_)
\* 1 << k
Pow2(k) == IF k = 0 THEN 1 ELSE 2 * Pow2(k - 1)

\* random.getrandbits(k)
getrandbits(k) == 0..(Pow2(k) - 1)

\* r | (1 << (bits - 1)) | 1, for r < 2^(bits - 1)
generate_prime_candidate(r, bits) ==
    LET top == r + Pow2(bits - 1)
    IN  IF top % 2 = 0 THEN top + 1 ELSE top

\* a loop test that lets a modulus one bit short through
generate_pqn_loop_test_short(keyValue, length) == bit_length(keyValue) < length - 1

\* while key.bit_length() != length
generate_pqn_loop_test(keyValue, length) == bit_length(keyValue) # length

-----------------------------------------------------------------------------
(* rsa.py: generate_key, step by step *)

KeySizes == 4..MaxKeyBits

generate_key_call ==
    /\ pc = "start"
    /\ \E sz \in KeySizes : size' = sz
    /\ pqnKey' = 0
    /\ primes' = <<>>
    /\ pc' = "pqn_loop"
    /\ UNCHANGED <<possiblePrime, mrI, rsaKey, msgInt, cipherInt, plainInt>>
    /\ UNCHANGED <<fileVars, blockVars, streamVars, expoVars, callVars>>

\* generate_pqn: the loop test holds, a new attempt starts with primes = []
generate_pqn_retry ==
    /\ pc = "pqn_loop"
    /\ generate_pqn_loop_test(pqnKey, size)
    /\ primes' = <<>>
    /\ pc' = "gen_prime"
    /\ UNCHANGED <<size, pqnKey, possiblePrime, mrI, rsaKey, msgInt, cipherInt,
                   plainInt>>
    /\ UNCHANGED <<fileVars, blockVars, streamVars, expoVars, callVars>>

\* generate_prime returned p: primes.append(p); after the second prime
\* key = primes[0] * primes[1] and the loop test is next
PrimeFound(p) ==
    /\ primes' = Append(primes, p)
    /\ pqnKey' = IF Len(primes) = 1 THEN primes[1] * p ELSE pqnKey
    /\ pc' = IF Len(primes) = 1 THEN "pqn_loop" ELSE "gen_prime"

\* generate_prime draws a candidate; miller_rabin answers at once for 2, 3, 5, 7,
\* n <= 1 and even n, and otherwise starts its rounds
generate_prime_draw ==
    /\ pc = "gen_prime"
    /\ \E r \in getrandbits((size \div 2) - 1) :
          LET n == generate_prime_candidate(r, size \div 2)
          IN  /\ possiblePrime' = n
              /\ IF n = 2 \/ n = 3 \/ n = 5 \/ n = 7
                 THEN PrimeFound(n)
                 ELSE /\ pc' = IF n <= 1 \/ n % 2 = 0 THEN "gen_prime" ELSE "mr_round"
                      /\ UNCHANGED <<primes, pqnKey>>
    /\ mrI' = 0
    /\ UNCHANGED <<size, rsaKey, msgInt, cipherInt, plainInt>>
    /\ UNCHANGED <<fileVars, blockVars, streamVars, expoVars, callVars>>

\* one round of miller_rabin with a random witness: inconclusive, or composite
\* (miller_rabin returns False and generate_prime draws again)
miller_rabin_round ==
    /\ pc = "mr_round"
    /\ mrI < MillerRabinRounds
    /\ \E a \in miller_rabin_witnesses(possiblePrime) :
          IF miller_rabin_round_passes(possiblePrime, a)
          THEN mrI' = mrI + 1 /\ pc' = "mr_round"
          ELSE mrI' = mrI /\ pc' = "gen_prime"
    /\ UNCHANGED <<size, primes, pqnKey, possiblePrime, rsaKey, msgInt, cipherInt,
                   plainInt>>
    /\ UNCHANGED <<fileVars, blockVars, streamVars, expoVars, callVars>>

\* all rounds were inconclusive: miller_rabin returns True
miller_rabin_true ==
    /\ pc = "mr_round"
    /\ mrI = MillerRabinRounds
    /\ PrimeFound(possiblePrime)
    /\ UNCHANGED <<size, possiblePrime, mrI, rsaKey, msgInt, cipherInt, plainInt>>
    /\ UNCHANGED <<fileVars, blockVars, streamVars, expoVars, callVars>>

\* generate_pqn returns (p, q, n); generate_key derives phi, e and d
generate_key_return ==
    /\ pc = "pqn_loop"
    /\ ~generate_pqn_loop_test(pqnKey, size)
    /\ LET p == primes[1]
           q == primes[2]
           n == pqnKey
           phi == (p - 1) * (q - 1)
           e == find_coprime(phi)
       IN  IF find_modular_inverse_raises(e, phi)
           THEN rsaKey' = rsaKey /\ pc' = "value_error"
           ELSE rsaKey' = <<n, e, find_modular_inverse(e, phi)>> /\ pc' = "keyed"
    /\ UNCHANGED <<size, primes, pqnKey, possiblePrime, mrI, msgInt, cipherInt,
                   plainInt>>
    /\ UNCHANGED <<fileVars, blockVars, streamVars, expoVars, callVars>>

\* the trapdoor applied with e (encrypt) and then with d (decrypt) to a message
\* m < n of fewer bits than the key
rsa_trapdoor_round_trip ==
    /\ pc = "keyed"
    /\ \E m \in 0..(rsaKey[1] - 1) :
          /\ bit_length(m) < size
          /\ msgInt' = m
          /\ cipherInt' = expo(m, rsaKey[2], rsaKey[1])
          /\ plainInt' = expo(expo(m, rsaKey[2], rsaKey[1]), rsaKey[3], rsaKey[1])
    /\ pc' = "tripped"
    /\ UNCHANGED <<size, primes, pqnKey, possiblePrime, mrI, rsaKey>>
    /\ UNCHANGED <<fileVars, blockVars, streamVars, expoVars, callVars>>

InitRsa ==
    /\ pc = "start"
    /\ InitFileVars
    /\ InitBlockVars
    /\ InitStreamVars
    /\ InitRsaVars
    /\ InitExpoVars
    /\ InitCallVars

NextRsa ==
    \/ generate_key_call
    \/ generate_pqn_retry
    \/ generate_prime_draw
    \/ miller_rabin_round
    \/ miller_rabin_true
    \/ generate_key_return
    \/ rsa_trapdoor_round_trip

SpecRsa == InitRsa /\ [][NextRsa]_vars

-----------------------------------------------------------------------------
(* rsa.py: expo called on its own *)

expo_call ==
    /\ pc = "start"
    /\ \E a \in 0..MaxBase, b \in 0..MaxExp, c \in 1..MaxMod :
          /\ expoArgs' = <<a, b, c>>
          /\ expoResult' = expo(a, b, c)
    /\ pc' = "returned"
    /\ UNCHANGED <<fileVars, blockVars, streamVars, rsaVars, callVars>>

InitExpo ==
    /\ pc = "start"
    /\ InitFileVars
    /\ InitBlockVars
    /\ InitStreamVars
    /\ InitRsaVars
    /\ InitExpoVars
    /\ InitCallVars

NextExpo == expo_call

SpecExpo == InitExpo /\ [][NextExpo]_vars

-----------------------------------------------------------------------------
(* Properties of RSA key generation (SpecRsa) and of expo (SpecExpo) *)

RECURSIVE Power(_, _)
Power(a, b) == IF b = 0 THEN 1 ELSE a * Power(a, b - 1)

\* C7: whenever generate_pqn has returned (p, q, n), n = p * q and n has exactly
\* the requested number of bits, 2^(size-1) <= n < 2^size; so has the n of the
\* key generate_key returns.
C7_ModulusExact ==
    pc \in {"keyed", "tripped", "value_error"} =>
        /\ Len(primes) = 2
        /\ pqnKey = primes[1] * primes[2]
        /\ Power(2, size - 1) <= pqnKey
        /\ pqnKey < Power(2, size)
        /\ pc # "value_error" => rsaKey[1] = pqnKey

C7_Witness ==
    /\ pc = "keyed"
    /\ size = 8
    /\ primes = <<11, 13>>
    /\ rsaKey[1] = 143

\* C8: in every (p, q, n) that key generation returns, p # q.
C8_PrimesDistinct ==
    pc \in {"keyed", "tripped", "value_error"} => primes[1] # primes[2]

\* C9: for every returned key [n, e, d] and every m with 0 <= m < n and
\* bit_length(m) < size, expo(expo(m, e, n), d, n) = m and
\* expo(expo(m, d, n), e, n) = m.
C9_TrapdoorRoundTrip ==
    pc = "tripped" =>
        /\ plainInt = msgInt
        /\ expo(expo(msgInt, rsaKey[3], rsaKey[1]), rsaKey[2], rsaKey[1]) = msgInt

\* C10: for a >= 0, b >= 0 and c > 0, expo(a, b, c) is a^b mod c, the value r
\* with 0 <= r < c that is congruent to a^b modulo c.
C10_ExpoIsModPow ==
    pc = "returned" =>
        /\ 0 <= expoResult
        /\ expoResult < expoArgs[3]
        /\ expoResult = Power(expoArgs[1], expoArgs[2]) % expoArgs[3]

-----------------------------------------------------------------------------
(* rsa.py: miller_rabin called on its own *)

\* the arguments n that miller_rabin is called with: everything from -2 to
\* MaxCandidate, and 341
MillerRabinArgs == (-2..MaxCandidate) \cup {341}

miller_rabin_call ==
    /\ pc = "start"
    /\ \E n \in MillerRabinArgs, k \in 0..MaxRounds :
          /\ mrN' = n
          /\ mrK' = k
          /\ IF n = 2 \/ n = 3 \/ n = 5 \/ n = 7
             THEN mrResult' = TRUE /\ pc' = "mr_returned"
             ELSE IF n <= 1 \/ n % 2 = 0
                  THEN mrResult' = FALSE /\ pc' = "mr_returned"
                  ELSE mrResult' = "none" /\ pc' = "mr_loop"
    /\ mrLoopI' = 0
    /\ UNCHANGED <<fileVars, blockVars, streamVars, rsaVars, expoVars>>
    /\ UNCHANGED <<euclidVars, hashVars, menuVars, transformVars, scheduleVars>>

\* one pass of `for i in range(k)` with a random witness: the pass is
\* inconclusive, or miller_rabin returns False
miller_rabin_test ==
    /\ pc = "mr_loop"
    /\ mrLoopI < mrK
    /\ \E a \in miller_rabin_witnesses(mrN) :
          IF miller_rabin_round_passes(mrN, a)
          THEN mrLoopI' = mrLoopI + 1 /\ mrResult' = mrResult /\ pc' = "mr_loop"
          ELSE mrLoopI' = mrLoopI /\ mrResult' = FALSE /\ pc' = "mr_returned"
    /\ UNCHANGED <<mrN, mrK>>
    /\ UNCHANGED <<fileVars, blockVars, streamVars, rsaVars, expoVars>>
    /\ UNCHANGED <<euclidVars, hashVars, menuVars, transformVars, scheduleVars>>

\* the loop ran out: miller_rabin returns True
miller_rabin_return_true ==
    /\ pc = "mr_loop"
    /\ mrLoopI = mrK
    /\ mrResult' = TRUE
    /\ pc' = "mr_returned"
    /\ UNCHANGED <<mrN, mrK, mrLoopI>>
    /\ UNCHANGED <<fileVars, blockVars, streamVars, rsaVars, expoVars>>
    /\ UNCHANGED <<euclidVars, hashVars, menuVars, transformVars, scheduleVars>>

InitMillerRabin ==
    /\ pc = "start"
    /\ InitFileVars
    /\ InitBlockVars
    /\ InitStreamVars
    /\ InitRsaVars
    /\ InitExpoVars
    /\ InitCallVars

NextMillerRabin ==
    \/ miller_rabin_call
    \/ miller_rabin_test
    \/ miller_rabin_return_true

SpecMillerRabin == InitMillerRabin /\ [][NextMillerRabin]_vars

-----------------------------------------------------------------------------
(* Properties of miller_rabin (SpecMillerRabin) *)

IsPrime(n) == n > 1 /\ \A d \in 2..(n - 1) : n % d # 0

\* C11: miller_rabin(n, k) returns True for n in {2, 3, 5, 7} and for every prime
\* n whatever witnesses are drawn, and returns False for every n <= 1 and every
\* even n > 2.
C11_NoFalseNegatives ==
    pc = "mr_returned" =>
        /\ (mrN \in {2, 3, 5, 7} \/ IsPrime(mrN)) => mrResult = TRUE
        /\ (mrN <= 1 \/ (mrN > 2 /\ mrN % 2 = 0)) => mrResult = FALSE

C11_Witness ==
    /\ pc = "mr_returned"
    /\ mrN = 41
    /\ mrK = 5
    /\ mrLoopI = 5
    /\ mrResult = TRUE

\* C12: miller_rabin(n) with the default 5 rounds returns False for every odd
\* composite n (341 among them), whatever 5 witnesses are drawn from [2, n-2].
C12_CompositesRejected ==
    (pc = "mr_returned" /\ mrK = MillerRabinRounds /\ mrN > 1 /\ mrN % 2 = 1
        /\ ~IsPrime(mrN)) => mrResult = FALSE

-----------------------------------------------------------------------------
(* rsa.py: extended_gcd and find_modular_inverse called on their own *)

extended_gcd_call ==
    /\ pc = "start"
    /\ \E a \in 0..MaxEuclid, b \in 0..MaxEuclid :
          /\ egcdArgs' = <<a, b>>
          /\ egcdResult' = extended_gcd(a, b)
    /\ pc' = "egcd_returned"
    /\ UNCHANGED <<invArgs, invRaised, invResult>>
    /\ UNCHANGED <<fileVars, blockVars, streamVars, rsaVars, expoVars>>
    /\ UNCHANGED <<primalityVars, hashVars, menuVars, transformVars, scheduleVars>>

find_modular_inverse_call ==
    /\ pc = "start"
    /\ \E e \in 0..MaxEuclid, phi \in 1..MaxEuclid :
          /\ invArgs' = <<e, phi>>
          /\ IF find_modular_inverse_raises(e, phi)
             THEN invRaised' = TRUE /\ invResult' = invResult
             ELSE invRaised' = FALSE /\ invResult' = find_modular_inverse(e, phi)
    /\ pc' = "inverse_returned"
    /\ UNCHANGED <<egcdArgs, egcdResult>>
    /\ UNCHANGED <<fileVars, blockVars, streamVars, rsaVars, expoVars>>
    /\ UNCHANGED <<primalityVars, hashVars, menuVars, transformVars, scheduleVars>>

InitEuclid ==
    /\ pc = "start"
    /\ InitFileVars
    /\ InitBlockVars
    /\ InitStreamVars
    /\ InitRsaVars
    /\ InitExpoVars
    /\ InitCallVars

NextEuclid ==
    \/ extended_gcd_call
    \/ find_modular_inverse_call

SpecEuclid == InitEuclid /\ [][NextEuclid]_vars

-----------------------------------------------------------------------------
(* Properties of extended_gcd and find_modular_inverse (SpecEuclid) *)

-----------------------------------------------------------------------------
(* rsa.py: the hash *)

hashSeed == <<101, 177, 72, 238, 72, 206, 116, 49>>

permute(data) == [k \in 1..Len(perm) |-> data[perm[k]]]

\* a pad that marks the end of the data with the byte 0x80 before the zeros
pad_marked(data) ==
    LET marked == Append(data, 128)
        paddingLen == IF Len(marked) % 8 # 0 THEN 8 - (Len(marked) % 8) ELSE 0
    IN  marked \o [k \in 1..paddingLen |-> 0]

pad(data) ==
    LET paddingLen == IF Len(data) % 8 # 0 THEN 8 - (Len(data) % 8) ELSE 0
    IN  data \o [k \in 1..paddingLen |-> 0]

\* one pass of the body of `for i in range(9)`
hash_block_round(seed, input) == XorBytes(sbox_sub(permute(seed)), input)

RECURSIVE hash_block_rounds(_, _)
\* the loop of hash_block; trace holds the seed before the first pass and after
\* every pass made so far
hash_block_rounds(trace, input) ==
    IF Len(trace) > 9 THEN trace[Len(trace)]
    ELSE hash_block_rounds(
             Append(trace, hash_block_round(trace[Len(trace)], input)), input)

\* a hash_block that makes one pass only
hash_block_once(seed, input) == hash_block_round(seed, input)

\* a hash_block that XORs the transformed seed with the seed, not with the input
hash_block_unkeyed(seed, input) == hash_block_rounds(<<seed>>, seed)

hash_block(seed, input) == hash_block_rounds(<<seed>>, input)

\* the files hash is called on
HashMessages ==
    {Pattern(n, a, b) : n \in 0..MaxHashLen, a \in {1}, b \in {0, 90}}

\* the file with bit `bit` of byte `pos` flipped
FlipBit(file, pos, bit) == [file EXCEPT ![pos] = BXor(@, Pow2(bit))]

\* hash is called three times: on a file, on that file with one bit flipped, and
\* on the first file again.  The call reads and pads the file and sets
\* currentHash to the seed.
hash_call ==
    /\ pc \in {"start", "hashed"}
    /\ Len(digests) < 3
    /\ \E file \in IF Len(digests) = 0 THEN HashMessages
                   ELSE IF Len(digests) = 2 THEN {digests[1][1]}
                   ELSE {FlipBit(digests[1][1], pos, bit) :
                            pos \in 1..Len(digests[1][1]), bit \in 0..7} :
          /\ hashFile' = file
          /\ inputData' = pad(file)
    /\ currentHash' = hashSeed
    /\ hashBlockI' = 0
    /\ pc' = "hash_loop"
    /\ UNCHANGED digests
    /\ UNCHANGED <<fileVars, blockVars, streamVars, rsaVars, expoVars>>
    /\ UNCHANGED <<primalityVars, euclidVars, menuVars, transformVars, scheduleVars>>

\* one pass of `for i in range(0, len(inputData), 8)`
hash_step ==
    /\ pc = "hash_loop"
    /\ hashBlockI * 8 < Len(inputData)
    /\ currentHash' = hash_block(currentHash,
                                 SubSeq(inputData, hashBlockI * 8 + 1,
                                        hashBlockI * 8 + 8))
    /\ hashBlockI' = hashBlockI + 1
    /\ UNCHANGED <<pc, hashFile, inputData, digests>>
    /\ UNCHANGED <<fileVars, blockVars, streamVars, rsaVars, expoVars>>
    /\ UNCHANGED <<primalityVars, euclidVars, menuVars, transformVars, scheduleVars>>

\* return bytes(currentHash)
hash_return ==
    /\ pc = "hash_loop"
    /\ hashBlockI * 8 >= Len(inputData)
    /\ digests' = Append(digests, <<hashFile, currentHash>>)
    /\ pc' = "hashed"
    /\ UNCHANGED <<hashFile, inputData, currentHash, hashBlockI>>
    /\ UNCHANGED <<fileVars, blockVars, streamVars, rsaVars, expoVars>>
    /\ UNCHANGED <<primalityVars, euclidVars, menuVars, transformVars, scheduleVars>>

InitHash ==
    /\ pc = "start"
    /\ InitFileVars
    /\ InitBlockVars
    /\ InitStreamVars
    /\ InitRsaVars
    /\ InitExpoVars
    /\ InitCallVars

NextHash ==
    \/ hash_call
    \/ hash_step
    \/ hash_return

SpecHash == InitHash /\ [][NextHash]_vars

-----------------------------------------------------------------------------
(* Properties of the hash (SpecHash) *)

\* data followed by zero bytes up to the next multiple of 8
ZeroPadded(data) == data \o [k \in 1..((8 - (Len(data) % 8)) % 8) |-> 0]

\* sbox_sub(permute(state)) XOR B
RoundOf(state, B) ==
    [k \in 1..8 |-> BXor(sbox[state[perm[k]] + 1], B[k])]

RECURSIVE RoundsOf(_, _, _)
\* n rounds with the same block B
RoundsOf(state, B, n) ==
    IF Len(state) = 0 \/ n = 0 THEN state
    ELSE RoundsOf(SubSeq(RoundOf(state, B), 1, 8), B, n - 1)

RECURSIVE DigestOf(_, _, _)
\* the state after all 8-byte blocks of data, n rounds for each block
DigestOf(state, data, n) ==
    IF Len(state) = 0 \/ Len(data) = 0 THEN state
    ELSE DigestOf(RoundsOf(state, SubSeq(data, 1, 8), n),
                  SubSeq(data, 9, Len(data)), n)

\* the seed 0x65B148EE48CE7431
SeedBytes == <<101, 177, 72, 238, 72, 206, 116, 49>>

\* C15, as claimed: every digest returned is the state reached from the seed
\* 0x65B148EE48CE7431 by ONE round sbox_sub(permute(state)) XOR B for each
\* 8-byte block B of the zero-padded input.
C15_OneRoundPerBlock ==
    \A i \in 1..Len(digests) :
        digests[i][2] = DigestOf(SeedBytes, ZeroPadded(digests[i][1]), 1)

\* C15, amended: every digest returned is the state reached from the seed
\* 0x65B148EE48CE7431 by NINE rounds sbox_sub(permute(state)) XOR B for each
\* 8-byte block B of the zero-padded input, B being the same in all nine.
C15_NineRoundsPerBlock ==
    \A i \in 1..Len(digests) :
        digests[i][2] = DigestOf(SeedBytes, ZeroPadded(digests[i][1]), 9)

C15_Witness ==
    /\ pc = "hashed"
    /\ Len(digests) = 1
    /\ digests[1][1] = Pattern(17, 1, 90)
    /\ hashBlockI = 3
    /\ digests[1][2] = <<227, 141, 225, 135, 13, 131, 140, 123>>

\* x and y have the same length and differ in exactly one bit
OneBitApart(x, y) ==
    /\ Len(x) = Len(y)
    /\ \E pos \in 1..Len(x) :
          /\ BXor(x[pos], y[pos]) \in {1, 2, 4, 8, 16, 32, 64, 128}
          /\ \A k \in 1..Len(x) : k # pos => x[k] = y[k]

\* C16: every digest has exactly 8 bytes, two calls of the hash on the same
\* input return the same digest, and two inputs of the same length that differ
\* in exactly one bit have different digests.
C16_DeterministicAndBitSensitive ==
    \A i \in 1..Len(digests), j \in 1..Len(digests) :
        /\ Len(digests[i][2]) = 8
        /\ digests[i][1] = digests[j][1] => digests[i][2] = digests[j][2]
        /\ OneBitApart(digests[i][1], digests[j][1]) => digests[i][2] # digests[j][2]

C16_Witness ==
    /\ pc = "hashed"
    /\ Len(digests) = 3
    /\ digests[1][1] = Pattern(9, 1, 0)
    /\ digests[2][1] = FlipBit(Pattern(9, 1, 0), 9, 7)
    /\ digests[2][2] # digests[1][2]
    /\ digests[3] = digests[1]

-----------------------------------------------------------------------------
(* symmetric.py, ciphers.py: transform called on its own *)

\* transform has no check of the two lengths and no raise statement
transform_raises(file, stream) == FALSE

TransformArgs == {Pattern(n, a, b) : n \in 0..MaxBuf, a \in {3}, b \in {1, 100}}

transform_call ==
    /\ pc = "start"
    /\ \E file \in TransformArgs, stream \in TransformArgs :
          /\ trFile' = file
          /\ trStream' = stream
          /\ IF transform_raises(file, stream)
             THEN trRaised' = TRUE /\ trOut' = trOut
             ELSE trRaised' = FALSE /\ trOut' = transform(file, stream)
    /\ pc' = "transformed"
    /\ UNCHANGED <<fileVars, blockVars, streamVars, rsaVars, expoVars>>
    /\ UNCHANGED <<primalityVars, euclidVars, hashVars, menuVars, scheduleVars>>

InitTransform ==
    /\ pc = "start"
    /\ InitFileVars
    /\ InitBlockVars
    /\ InitStreamVars
    /\ InitRsaVars
    /\ InitExpoVars
    /\ InitCallVars

NextTransform == transform_call

SpecTransform == InitTransform /\ [][NextTransform]_vars

\* C19: transform(buffer, keystream) with a buffer and a keystream of different
\* lengths fails with an error and returns nothing, never a shortened buffer;
\* with equal lengths its output has the length of the buffer.
C19_LengthMismatchRejected ==
    pc = "transformed" =>
        /\ Len(trFile) # Len(trStream) => trRaised
        /\ Len(trFile) = Len(trStream) => ~trRaised /\ Len(trOut) = Len(trFile)

-----------------------------------------------------------------------------
(* rsa.py: key files, integers and bytes *)

HexDigits == <<"0", "1", "2", "3", "4", "5", "6", "7", "8", "9",
               "a", "b", "c", "d", "e", "f">>

RECURSIVE format_hex(_)
\* f"{x:x}", the characters of the hexadecimal numeral of x >= 0
format_hex(x) ==
    IF x < 16 THEN <<HexDigits[x + 1]>>
    ELSE Append(format_hex(x \div 16), HexDigits[(x % 16) + 1])

HexValue(c) == CHOOSE v \in 0..15 : HexDigits[v + 1] = c

RECURSIVE int_base16(_)
\* int(line, 16) for a non-empty line of hexadecimal digits
int_base16(line) ==
    IF Len(line) = 0 THEN 0
    ELSE 16 * int_base16(SubSeq(line, 1, Len(line) - 1)) + HexValue(line[Len(line)])

\* load_key: (n, key_component) from the two lines of a key file
rsa_load_key(keyLines) == <<int_base16(keyLines[1]), int_base16(keyLines[2])>>

RECURSIVE from_bytes(_)
\* int.from_bytes(data, 'big')
from_bytes(data) ==
    IF Len(data) = 0 THEN 0
    ELSE 256 * from_bytes(SubSeq(data, 1, Len(data) - 1)) + data[Len(data)]

RECURSIVE from_bytes_mod(_, _)
\* int.from_bytes(data, 'big') % c, computed byte by byte so that the 64-bit
\* digest never has to be held as one integer
from_bytes_mod(data, c) ==
    IF Len(data) = 0 THEN 0
    ELSE (256 * from_bytes_mod(SubSeq(data, 1, Len(data) - 1), c) + data[Len(data)]) % c

\* x.to_bytes((x.bit_length() + 7) // 8, 'big')
to_bytes_minimal(x) == to_bytes(x, (bit_length(x) + 7) \div 8)

RECURSIVE hash_blocks(_, _)
\* the block loop of hash
hash_blocks(current, data) ==
    IF Len(data) = 0 THEN current
    ELSE hash_blocks(hash_block(current, SubSeq(data, 1, 8)),
                     SubSeq(data, 9, Len(data)))

\* hash(inputFile), on the content of the file
hash(data) == hash_blocks(hashSeed, pad(data))

-----------------------------------------------------------------------------
(* rsa.py: sign, verify and encrypt *)

\* sign: signature = expo(digest, d, n) with digest = int.from_bytes(hash(...)).
\* expo starts with a %= c, so it is entered here with the digest's residue.
sign_signature(fileData, privKey) ==
    expo_loop(1, from_bytes_mod(hash(fileData), privKey[1]), privKey[2], privKey[1])

\* verify: sigDigest = expo(intSigData, e, n)
verify_sigDigest(sigData, pubKey) == expo(from_bytes(sigData), pubKey[2], pubKey[1])

\* a comparison of the digests after reducing the file's digest modulo n
verify_match_reduced(fileData, sigData, pubKey) ==
    from_bytes_mod(hash(fileData), pubKey[1]) = verify_sigDigest(sigData, pubKey)

\* verify: fileDigest == sigDigest.  sigDigest is below n; the two integers are
\* equal exactly when the 8 bytes of the hash are sigDigest's 8-byte encoding.
verify_match(fileData, sigData, pubKey) ==
    hash(fileData) = to_bytes(verify_sigDigest(sigData, pubKey), 8)

\* a size test that counts bytes where encrypt counts bits
encrypt_fits_bytes(fileData, n) == Len(fileData) < bit_length(n)

\* encrypt: if len(fileData) * 8 < n.bit_length()
encrypt_fits(fileData, n) == Len(fileData) * 8 < bit_length(n)

-----------------------------------------------------------------------------
(* rsa.py: the menu.  A run is: create a key, then sign a file and verify the  *)
(* signature against a file, or encrypt a file.                                *)

MenuKeySizes == (MaxMenuKeyBits - 1)..MaxMenuKeyBits

\* The files that are signed.  create_key makes 1024-bit keys, so in the program
\* the 64-bit digest of a file is always below the modulus; these are files
\* whose digest (1600 and 8043) is below every modulus of MaxMenuKeyBits bits.
SignedFiles ==
    { <<129, 153, 67, 198, 27, 66, 144, 128, 201, 77, 148, 88, 26, 31, 46, 4>>,
      <<112, 207, 25, 36, 168, 182, 180, 216, 85, 87, 81, 73, 15, 4, 86, 178>> }

\* the file with one byte changed: byte pos XOR delta, delta # 0
ChangeByte(file, pos, delta) == [file EXCEPT ![pos] = BXor(@, delta)]

\* the files the signature of `file` is verified against
CheckedFiles(file) ==
    {file} \cup {ChangeByte(file, pos, delta) :
                    pos \in 1..Len(file), delta \in {1, 102, 255}}

\* the files that are encrypted
PlainFiles == {Pattern(n, a, b) : n \in 0..MaxPlainLen, a \in {1}, b \in {0, 77, 255}}

\* the values miller_rabin(n) can return, over all draws of the k = 5 witnesses
miller_rabin_results(n) ==
    IF n = 2 \/ n = 3 \/ n = 5 \/ n = 7 THEN {TRUE}
    ELSE IF n <= 1 \/ n % 2 = 0 THEN {FALSE}
    ELSE (IF \E a \in miller_rabin_witnesses(n) : miller_rabin_round_passes(n, a)
          THEN {TRUE} ELSE {})
         \cup
         (IF \E a \in miller_rabin_witnesses(n) : ~miller_rabin_round_passes(n, a)
          THEN {FALSE} ELSE {})

\* the values generate_prime(bits) can return
generate_prime_results(bits) ==
    {c \in {generate_prime_candidate(r, bits) : r \in getrandbits(bits - 1)} :
        TRUE \in miller_rabin_results(c)}

\* the (p, q, n) generate_pqn(length) can return: two values of generate_prime
\* whose product has `length` bits.  (For an odd length there is none and the
\* loop of generate_pqn never ends.)
generate_pqn_results(length) ==
    LET found == generate_prime_results(length \div 2)
    IN  {pqn \in {<<p, q, p * q>> : p \in found, q \in found} :
            ~generate_pqn_loop_test(pqn[3], length)}

\* create_key: generate_key(size), then the two key files are written, n and
\* d / e in hexadecimal
create_key ==
    /\ pc = "start"
    /\ \E sz \in MenuKeySizes :
          \E pqn \in generate_pqn_results(sz) :
              LET phi == (pqn[1] - 1) * (pqn[2] - 1)
                  e == find_coprime(phi)
                  d == find_modular_inverse(e, phi)
              IN  /\ size' = sz
                  /\ primes' = <<pqn[1], pqn[2]>>
                  /\ pqnKey' = pqn[3]
                  /\ IF find_modular_inverse_raises(e, phi)
                     THEN /\ pc' = "value_error"
                          /\ UNCHANGED <<rsaKey, privKeyFile, pubKeyFile>>
                     ELSE /\ pc' = "menu"
                          /\ rsaKey' = <<pqn[3], e, d>>
                          /\ privKeyFile' = <<format_hex(pqn[3]), format_hex(d)>>
                          /\ pubKeyFile' = <<format_hex(pqn[3]), format_hex(e)>>
    /\ UNCHANGED <<possiblePrime, mrI, msgInt, cipherInt, plainInt>>
    /\ UNCHANGED <<signedFile, sigFile, checkedFile, digestsMatch, plainFile,
                   trapdoorApplied, intData, cipherWritten, cipherFile>>
    /\ UNCHANGED <<fileVars, blockVars, streamVars, expoVars>>
    /\ UNCHANGED <<primalityVars, euclidVars, hashVars, transformVars, scheduleVars>>

sign ==
    /\ pc = "menu"
    /\ \E file \in SignedFiles :
          /\ signedFile' = file
          /\ sigFile' = to_bytes_minimal(sign_signature(file, rsa_load_key(privKeyFile)))
    /\ pc' = "signed"
    /\ UNCHANGED <<privKeyFile, pubKeyFile, checkedFile, digestsMatch, plainFile,
                   trapdoorApplied, intData, cipherWritten, cipherFile>>
    /\ UNCHANGED <<fileVars, blockVars, streamVars, rsaVars, expoVars>>
    /\ UNCHANGED <<primalityVars, euclidVars, hashVars, transformVars, scheduleVars>>

verify ==
    /\ pc = "signed"
    /\ \E file \in CheckedFiles(signedFile) :
          /\ checkedFile' = file
          /\ digestsMatch' = verify_match(file, sigFile, rsa_load_key(pubKeyFile))
    /\ pc' = "verified"
    /\ UNCHANGED <<privKeyFile, pubKeyFile, signedFile, sigFile, plainFile,
                   trapdoorApplied, intData, cipherWritten, cipherFile>>
    /\ UNCHANGED <<fileVars, blockVars, streamVars, rsaVars, expoVars>>
    /\ UNCHANGED <<primalityVars, euclidVars, hashVars, transformVars, scheduleVars>>

\* encrypt: the trapdoor and the output file, or the "too large" message
encrypt ==
    /\ pc = "menu"
    /\ \E file \in PlainFiles :
          LET pubKey == rsa_load_key(pubKeyFile)
          IN  /\ plainFile' = file
              /\ IF encrypt_fits(file, pubKey[1])
                 THEN /\ intData' = from_bytes(file)
                      /\ trapdoorApplied' = TRUE
                      /\ cipherWritten' = TRUE
                      /\ cipherFile' =
                            to_bytes_minimal(expo(from_bytes(file), pubKey[2], pubKey[1]))
                 ELSE UNCHANGED <<intData, trapdoorApplied, cipherWritten, cipherFile>>
    /\ pc' = "rsa_encrypted"
    /\ UNCHANGED <<privKeyFile, pubKeyFile, signedFile, sigFile, checkedFile,
                   digestsMatch>>
    /\ UNCHANGED <<fileVars, blockVars, streamVars, rsaVars, expoVars>>
    /\ UNCHANGED <<primalityVars, euclidVars, hashVars, transformVars, scheduleVars>>

InitMenu ==
    /\ pc = "start"
    /\ InitFileVars
    /\ InitBlockVars
    /\ InitStreamVars
    /\ InitRsaVars
    /\ InitExpoVars
    /\ InitCallVars

NextMenu ==
    \/ create_key
    \/ sign
    \/ verify
    \/ encrypt

SpecMenu == InitMenu /\ [][NextMenu]_vars

-----------------------------------------------------------------------------
(* Properties of sign, verify and encrypt (SpecMenu) *)

\* C17: for every key pair that key generation produced and every message,
\* verifying the signature of the message against the same message succeeds:
\* the stored signature, re-read and raised to e modulo n, is the digest of
\* the message.
C17_SignVerifyRoundTrip ==
    (pc = "verified" /\ checkedFile = signedFile) =>
        /\ digestsMatch
        /\ to_bytes(expo(from_bytes(sigFile), rsaKey[2], rsaKey[1]), 8)
              = hash(signedFile)

\* C18: for every key pair that key generation produced, verifying the
\* signature of M against an M' that differs from M in exactly one byte (same
\* length) fails.
C18_TamperedRejected ==
    (pc = "verified" /\ checkedFile # signedFile) => ~digestsMatch

\* a valid key, a signature that verifies against M, and an M' whose digest
\* is congruent to M's modulo n
C18_Witness ==
    /\ pc = "verified"
    /\ primes = <<101, 107>>
    /\ signedFile[14] = 31
    /\ checkedFile = ChangeByte(signedFile, 14, 102)
    /\ verify_match(signedFile, sigFile, rsa_load_key(pubKeyFile))
    /\ from_bytes_mod(hash(checkedFile), rsaKey[1])
          = from_bytes_mod(hash(signedFile), rsaKey[1])
    /\ ~digestsMatch

\* C20, as claimed: encrypt applies the trapdoor and writes the output exactly
\* when the bit length of the message (as an integer) is below the bit length
\* of n, and never applies the trapdoor to an m >= n.
C20_EncryptIffFewerBits ==
    pc = "rsa_encrypted" =>
        /\ cipherWritten <=> bit_length(from_bytes(plainFile)) < bit_length(rsaKey[1])
        /\ trapdoorApplied <=> cipherWritten
        /\ trapdoorApplied => intData < rsaKey[1]

\* C20, amended: encrypt applies the trapdoor and writes the output exactly
\* when 8 times the length of the file in bytes is below the bit length of n;
\* every message of at least n's bit length is rejected with no output, and
\* the trapdoor is never applied to an m >= n.
C20_EncryptIffFewerFileBits ==
    pc = "rsa_encrypted" =>
        /\ cipherWritten <=> Len(plainFile) * 8 < bit_length(rsaKey[1])
        /\ trapdoorApplied <=> cipherWritten
        /\ bit_length(from_bytes(plainFile)) >= bit_length(rsaKey[1]) => ~cipherWritten
        /\ trapdoorApplied =>
              /\ intData = from_bytes(plainFile)
              /\ intData < rsaKey[1]
              /\ from_bytes(cipherFile) = expo(intData, rsaKey[2], rsaKey[1])

C20_Witness ==
    /\ pc = "rsa_encrypted"
    /\ plainFile = <<0, 1>>
    /\ bit_length(rsaKey[1]) = 14
    /\ ~cipherWritten
    /\ ~trapdoorApplied

-----------------------------------------------------------------------------
(* The block ciphers started in mode 'e' on an existing key file ('e' at the  *)
(* key prompt): load_key reads whatever the file holds.                       *)

KeyFiles == KeyChoices \cup {Pattern(L, 59, 200) : L \in 0..MaxKeyFileLen}

KeyFileMessages == {Pattern(L, 37, 11) : L \in {0, 5, 8, 16, 23}}

\* ciphers.py: rawKey = load_key(keyFileName), then
\* generate_key_schedule(generate_key_words(rawKey)); an IndexError raised there
\* is not caught and ends the run before anything is written
ciphers_main_existing_key ==
    /\ pc = "start"
    /\ \E k \in KeyFiles, m \in KeyFileMessages, v \in ciphers_generate_iv :
          LET rawKey == ciphers_load_key(k)
              raises == generate_key_words_raises(rawKey)
          IN  /\ variant' = "legacy"
              /\ mode' = "e"
              /\ message' = m
              /\ keyFile' = k
              /\ sourceFile' = m
              /\ destFile' = <<>>
              /\ opFile' = m
              /\ iv' = v
              /\ keySchedule' =
                    IF raises THEN keySchedule
                    ELSE ciphers_generate_key_schedule(generate_key_words(rawKey))
              /\ numBlocks' = IF raises THEN numBlocks ELSE ciphers_numBlocks(Len(m))
              /\ excessLen' = IF raises THEN excessLen ELSE ciphers_excessLen(Len(m))
              /\ pc' = IF raises THEN "index_error" ELSE "build"
    /\ keyStream' = <<>>
    /\ loopI' = 0
    /\ ivGenI' = 0
    /\ UNCHANGED <<streamVars, rsaVars, expoVars, callVars>>

\* symmetric.py, cipher 'b': rawKey = load_key(keyFileName), then
\* generate_key_schedule(rawKey, 12)
symmetric_main_existing_key ==
    /\ pc = "start"
    /\ \E k \in KeyFiles, m \in KeyFileMessages, v \in symmetric_generate_iv :
          LET rawKey == symmetric_load_key(k)
              raises == generate_key_schedule_index_error(rawKey, 12)
          IN  /\ variant' = "feistel"
              /\ mode' = "e"
              /\ message' = m
              /\ keyFile' = k
              /\ sourceFile' = m
              /\ destFile' = <<>>
              /\ opFile' = m
              /\ iv' = v
              /\ keySchedule' =
                    IF raises THEN keySchedule ELSE generate_key_schedule(rawKey, 12)
              /\ numBlocks' = IF raises THEN numBlocks ELSE symmetric_numBlocks(Len(m))
              /\ excessLen' = IF raises THEN excessLen ELSE symmetric_excessLen(Len(m))
              /\ pc' = IF raises THEN "index_error" ELSE "build"
    /\ keyStream' = <<>>
    /\ loopI' = 0
    /\ ivGenI' = 0
    /\ UNCHANGED <<streamVars, rsaVars, expoVars, callVars>>

NextKeyFile ==
    \/ ciphers_main_existing_key
    \/ ciphers_build_keystream_step
    \/ ciphers_build_keystream_return
    \/ ciphers_main_write
    \/ symmetric_main_existing_key
    \/ symmetric_build_keystream_step
    \/ symmetric_build_keystream_return
    \/ symmetric_main_write

\* the run starts as every run of the block ciphers does
SpecKeyFile == InitBlock /\ [][NextKeyFile]_vars

\* C21: a key file whose length is not 16 bytes is reported as an
\* InvalidKeyLength failure: the run ends there, with no key schedule built and
\* nothing written to the destination file.
C21_InvalidKeyLengthReported ==
    (pc # "start" /\ Len(keyFile) # 16) =>
        /\ pc = "invalid_key_length"
        /\ keySchedule = <<>>
        /\ destFile = <<>>

-----------------------------------------------------------------------------
(* The key expansions called on their own: symmetric.py generate_key_schedule *)
(* on load_key's two keys, ciphers.py generate_key_words and                   *)
(* generate_key_schedule on load_key's four words.                             *)

ScheduleSeeds == {Pattern(16, a, b) : a \in {0, 1, 59}, b \in {0, 200, 255}}

\* the block cipher asks for 12 keys, extend_key for remaining // 8 + 1, which
\* grows with the length of the file
ScheduleTotals == (1..MaxTotalKeys) \cup {2 * RecursionLimit}

\* generate_key_schedule(keys, totalKeys), called twice on a fresh list of the
\* same two seed keys
generate_key_schedule_call ==
    /\ pc \in {"start", "sched_returned"}
    /\ Len(schedules) < 2
    /\ \E seed \in IF Len(schedules) = 0 THEN ScheduleSeeds ELSE {schedSeed},
          total \in IF Len(schedules) = 0 THEN ScheduleTotals ELSE {schedTotal} :
          LET keys == symmetric_load_key(seed)
              raises == generate_key_schedule_raises(keys, total)
          IN  /\ schedSeed' = seed
              /\ schedTotal' = total
              /\ schedRaised' = raises
              /\ schedules' = IF raises THEN schedules
                              ELSE Append(schedules, generate_key_schedule(keys, total))
              /\ pc' = IF raises THEN "recursion_error" ELSE "sched_returned"
    /\ UNCHANGED <<legacyWords, legacyKeys>>
    /\ UNCHANGED <<fileVars, blockVars, streamVars, rsaVars, expoVars>>
    /\ UNCHANGED <<primalityVars, euclidVars, hashVars, menuVars, transformVars>>

\* ciphers.py: generate_key_schedule(generate_key_words(words)) on the four
\* words of a 16-byte key
generate_key_words_call ==
    /\ pc = "start"
    /\ \E seed \in ScheduleSeeds :
          /\ schedSeed' = seed
          /\ legacyWords' = generate_key_words(ciphers_load_key(seed))
          /\ legacyKeys' =
                ciphers_generate_key_schedule(generate_key_words(ciphers_load_key(seed)))
    /\ pc' = "words_returned"
    /\ UNCHANGED <<schedTotal, schedRaised, schedules>>
    /\ UNCHANGED <<fileVars, blockVars, streamVars, rsaVars, expoVars>>
    /\ UNCHANGED <<primalityVars, euclidVars, hashVars, menuVars, transformVars>>

InitSchedule ==
    /\ pc = "start"
    /\ InitFileVars
    /\ InitBlockVars
    /\ InitStreamVars
    /\ InitRsaVars
    /\ InitExpoVars
    /\ InitCallVars

NextSchedule ==
    \/ generate_key_schedule_call
    \/ generate_key_words_call

SpecSchedule == InitSchedule /\ [][NextSchedule]_vars

-----------------------------------------------------------------------------
(* Properties of the key expansions (SpecSchedule) *)

\* the round transform of the Feistel key schedule: byte k of the result is the
\* s-box entry of byte perm[k] of the key
RoundTransform(k8) == [k \in 1..8 |-> sbox[k8[perm[k]] + 1]]

\* schedule is the expansion of the 16 seed bytes to `total` keys
IsScheduleOf(schedule, seed, total) ==
    /\ Len(schedule) = total
    /\ total >= 1 => schedule[1] = SubSeq(seed, 1, 8)
    /\ total >= 2 => schedule[2] = SubSeq(seed, 9, 16)
    /\ \A i \in 3..total :
          /\ Len(schedule[i]) = 8
          /\ \A k \in 1..8 :
                schedule[i][k] = BXor(RoundTransform(schedule[i - 1])[k],
                                      schedule[i - 2][k])

\* C22: every call of generate_key_schedule on a seed of two 8-byte keys with
\* a positive even totalKeys returns, and returns exactly totalKeys keys: the
\* two seed keys, then schedule[i] = sbox_sub(permutate(schedule[i-1])) XOR
\* schedule[i-2]; two calls with the same seed return the same schedule.
C22_ScheduleReturned ==
    (pc \in {"sched_returned", "recursion_error"} /\ schedTotal % 2 = 0) =>
        /\ ~schedRaised
        /\ \A c \in 1..Len(schedules) :
              IsScheduleOf(schedules[c], schedSeed, schedTotal)
        /\ Len(schedules) = 2 => schedules[1] = schedules[2]

\* the transform of every 4th word: rotate right by one byte, substitute, flip
\* all bits of the first byte
WordTransform(w) ==
    <<255 - sbox[w[4] + 1], sbox[w[1] + 1], sbox[w[2] + 1], sbox[w[3] + 1]>>

\* C24: generate_key_words turns the four 4-byte words of the key into exactly
\* 24 words: the four seed words, then every word i (counted from 0) is the
\* byte-wise XOR of word i-1, passed through the transform first when i is a
\* multiple of 4, with the word 3 places behind word i-1 (word i-4); the
\* schedule is the 12 keys word 2k followed by word 2k+1.
C24_LegacyExpansion ==
    pc = "words_returned" =>
        /\ Len(legacyWords) = 24
        /\ \A i \in 0..3 : legacyWords[i + 1] = SubSeq(schedSeed, 4 * i + 1, 4 * i + 4)
        /\ \A i \in 4..23 :
              /\ Len(legacyWords[i + 1]) = 4
              /\ \A k \in 1..4 :
                    legacyWords[i + 1][k] =
                        BXor((IF i % 4 = 0 THEN WordTransform(legacyWords[i])
                                           ELSE legacyWords[i])[k],
                             legacyWords[i - 3][k])
        /\ Len(legacyKeys) = 12
        /\ \A k \in 0..11 :
              legacyKeys[k + 1] = legacyWords[2 * k + 1] \o legacyWords[2 * k + 2]

C24_Witness ==
    /\ pc = "words_returned"
    /\ schedSeed = Pattern(16, 1, 0)
    /\ legacyWords[5] = <<137, 255, 213, 168>>
    /\ legacyKeys[12] = <<240, 182, 253, 46, 250, 153, 194, 222>>

-----------------------------------------------------------------------------
(* Key generation under fair random draws.  random.getrandbits is fair: a     *)
(* value that can be drawn again and again is drawn in the end, whatever the  *)
(* attempt has found so far.  It is enough to ask this of one value, the      *)
(* largest prime of the requested length: drawn at some time, drawn as the    *)
(* first prime of an attempt, and drawn again as the second.                  *)

\* the largest prime among the candidates of generate_prime(bits), 0 if none
LargestPrime(bits) ==
    LET found == {c \in {generate_prime_candidate(r, bits) : r \in getrandbits(bits - 1)} :
                     IsPrime(c)}
    IN  IF found = {} THEN 0 ELSE CHOOSE p \in found : \A q \in found : q <= p

\* generate_prime draws the largest prime as the first prime of an attempt
generate_prime_draw_first ==
    /\ pc = "gen_prime"
    /\ primes = <<>>
    /\ generate_prime_draw
    /\ possiblePrime' = LargestPrime(size \div 2)

\* generate_prime draws the largest prime again as the second prime
generate_prime_draw_second ==
    /\ pc = "gen_prime"
    /\ primes = <<LargestPrime(size \div 2)>>
    /\ generate_prime_draw
    /\ possiblePrime' = LargestPrime(size \div 2)

\* generate_prime draws the largest prime
generate_prime_draw_largest ==
    /\ pc = "gen_prime"
    /\ generate_prime_draw
    /\ possiblePrime' = LargestPrime(size \div 2)

\* the steps of generate_pqn and of the generate_prime and miller_rabin it
\* calls; the program takes the next one whenever there is one
generate_pqn_step ==
    \/ generate_pqn_retry
    \/ generate_prime_draw
    \/ miller_rabin_round
    \/ miller_rabin_true

SpecRsaFair ==
    /\ InitRsa
    /\ [][NextRsa]_vars
    /\ WF_vars(generate_pqn_step)
    /\ SF_vars(generate_prime_draw_largest)
    /\ SF_vars(generate_prime_draw_first)
    /\ SF_vars(generate_prime_draw_second)

\* C23: for every requested length >= 4, generate_pqn returns under fair
\* draws: its loop of attempts reaches a key of the requested bit length, the
\* loop test fails and p, q and n are returned.
C23_PqnReturns ==
    (pc = "pqn_loop" /\ size >= 4) ~>
        (pc = "pqn_loop" /\ ~generate_pqn_loop_test(pqnKey, size))

-----------------------------------------------------------------------------
(* The key material extend_key appends (SpecStream) *)

\* C25: when extend_key returns a key of 1032 bytes or more, its bytes
\* 1024..1039 (as far as the key goes) are a copy of bytes 1008..1023, the last
\* 16 bytes of the seed, and the plaintext at those positions is XORed with
\* the key bytes already used 16 positions earlier.
C25_AppendedKeyRepeatsSeedTail ==
    (pc \in {"stream_encrypted", "stream_decrypted"} /\ Len(message) >= 1032) =>
        /\ Len(key) = Len(message)
        /\ \A i \in 1025..Min(Len(key), 1040) :
              /\ key[i] = seedKey[i - 16]
              /\ key[i] = key[i - 16]
        /\ pc = "stream_encrypted" =>
              \A i \in 1025..Min(Len(key), 1040) :
                  destFile[i] = BXor(message[i], key[i - 16])

C25_Witness ==
    /\ pc = "stream_encrypted"
    /\ Len(message) = 1048
    /\ seedKey = Pattern(1024, 7, 3)
    /\ SubSeq(key, 1025, 1040) = Pattern(16, 7, 3 + 7 * 1008)
    /\ SubSeq(key, 1041, 1048) # SubSeq(key, 1025, 1032)

-----------------------------------------------------------------------------
(* rsa.py: hash called on a file and on the same file followed by zero bytes *)

\* data followed by k zero bytes
ZeroExtended(data, k) == data \o [i \in 1..k |-> 0]

\* hash is called twice: on a file, and on that file with 1 to 8 zero bytes
\* appended.  The call reads and pads the file and sets currentHash to the seed.
hash_call_zero_extended ==
    /\ pc \in {"start", "hashed"}
    /\ Len(digests) < 2
    /\ \E file \in IF Len(digests) = 0 THEN HashMessages
                   ELSE {ZeroExtended(digests[1][1], k) : k \in 1..8} :
          /\ hashFile' = file
          /\ inputData' = pad(file)
    /\ currentHash' = hashSeed
    /\ hashBlockI' = 0
    /\ pc' = "hash_loop"
    /\ UNCHANGED digests
    /\ UNCHANGED <<fileVars, blockVars, streamVars, rsaVars, expoVars>>
    /\ UNCHANGED <<primalityVars, euclidVars, menuVars, transformVars, scheduleVars>>

NextHashPad ==
    \/ hash_call_zero_extended
    \/ hash_step
    \/ hash_return

SpecHashPad == InitHash /\ [][NextHashPad]_vars

\* C26: a file whose length is not a multiple of 8 and the same file followed
\* by k zero bytes, 1 <= k <= 8 - (length mod 8), have the same digest; the
\* digest of the empty file is the seed 0x65B148EE48CE7431.
C26_TrailingZerosCollide ==
    /\ \A c \in 1..Len(digests) :
          digests[c][1] = <<>> => digests[c][2] = SeedBytes
    /\ Len(digests) = 2 =>
          LET m == digests[1][1]
              k == Len(digests[2][1]) - Len(m)
          IN  (Len(m) % 8 # 0 /\ 1 <= k /\ k <= 8 - (Len(m) % 8)) =>
                  /\ digests[2][1] = m \o [i \in 1..k |-> 0]
                  /\ digests[2][2] = digests[1][2]

C26_Witness ==
    /\ pc = "hashed"
    /\ Len(digests) = 2
    /\ digests[1][1] = Pattern(13, 1, 90)
    /\ digests[2][1] = Pattern(13, 1, 90) \o <<0, 0, 0>>
    /\ digests[2][2] = digests[1][2]
    /\ digests[1][2] # SeedBytes

=============================================================================
